---- MODULE Spec2Model ----
(***************************************************************************)
(* LeadFlow backend: the Express middleware (src/middleware/auth.js), the  *)
(* two routers (src/routes/users.js holds the users router, lines 1-150,   *)
(* and the leads router, lines 151-582) and the Mongoose schemas           *)
(* (src/models/Lead.js holds the Lead schema, lines 1-76, and the User     *)
(* schema, lines 77-125).                                                  *)
(*                                                                         *)
(* Strings that the code trims, lower-cases or searches are sequences of   *)
(* one-character strings, so that those conversions are computed.          *)
(* Strings that are only compared (roles, status values, ids, handler      *)
(* names) are TLA+ strings.  A request body or query is a function whose   *)
(* DOMAIN is the set of fields it carries: an absent field is undefined.   *)
(***************************************************************************)
EXTENDS Integers, Sequences, FiniteSets, TLC

VARIABLES http, users, ureqs, leads, reqs, clock, last, listing

vars == <<http, users, ureqs, leads, reqs, clock, last, listing>>

(***************************************************************************)
(* Strings                                                                 *)
(***************************************************************************)
RECURSIVE trimStart(_)
trimStart(s) ==
  IF s = <<>> THEN s
  ELSE IF Head(s) = " " THEN trimStart(Tail(s)) ELSE s

RECURSIVE trimEnd(_)
trimEnd(s) ==
  IF s = <<>> THEN s
  ELSE IF s[Len(s)] = " " THEN trimEnd(SubSeq(s, 1, Len(s) - 1)) ELSE s

\* Mongoose `trim: true`
trim(s) == trimEnd(trimStart(s))

lowerChar(c) ==
  CASE c = "A" -> "a"
    [] c = "B" -> "b"
    [] c = "X" -> "x"
    [] OTHER -> c

\* Mongoose `lowercase: true`, and the `i` option of a $regex
toLowerCase(s) == [i \in DOMAIN s |-> lowerChar(s[i])]

\* JavaScript truthiness of a string: only the empty string is falsy
truthy(s) == s # <<>>

\* { $regex: pat, $options: 'i' } for a pattern without metacharacters
regexI(pat, s) ==
  \E i \in 0..Len(s) :
    /\ i + Len(pat) <= Len(s)
    /\ toLowerCase(SubSeq(s, i + 1, i + Len(pat))) = toLowerCase(pat)

(***************************************************************************)
(* Principals and tokens                                                   *)
(***************************************************************************)
Roles == {"super_admin", "admin", "agent"}

SA1 == [id |-> "u1", role |-> "super_admin"]
SA2 == [id |-> "u2", role |-> "super_admin"]
AD  == [id |-> "u3", role |-> "admin"]
G1  == [id |-> "u4", role |-> "agent"]
G2  == [id |-> "u5", role |-> "agent"]

\* the payloads of the tokens in circulation: what jwt.verify hands back
Payloads == {SA1, SA2, AD, G1, G2}

\* req.user of a request that carries no verified token
NoUser == [id |-> "undefined", role |-> "undefined"]

TokenKinds == {"valid", "expired", "malformed", "badsig"}

Tokens == [kind : TokenKinds, payload : Payloads]

\* what `authHeader && authHeader.split(' ')[1]` yields without a token
NoToken == [kind |-> "undefined", payload |-> NoUser]

\* the second part of "Bearer " is the empty string
EmptyToken == [kind |-> "empty", payload |-> NoUser]

\* req.headers.authorization split at ' '; <<>> stands for no header
NoHeader == <<>>

Headers ==
  {NoHeader, <<"Bearer">>, <<"Bearer", EmptyToken>>}
    \cup {<<"Bearer", t>> : t \in Tokens}

\* jwt.verify: the error it passes to the callback ("null": none)
verifyErr(token) ==
  CASE token.kind = "valid"     -> "null"
    [] token.kind = "expired"   -> "TokenExpiredError"
    [] OTHER                    -> "JsonWebTokenError"

\* src/middleware/auth.js, authenticateToken
authenticateToken(header) ==
  LET token == IF header # NoHeader /\ Len(header) >= 2
               THEN header[2] ELSE NoToken
  IN IF token.kind \in {"undefined", "empty"}
     THEN [next |-> FALSE, status |-> 401,
           message |-> "Access denied. No token provided.", user |-> NoUser]
     ELSE IF verifyErr(token) # "null"
     THEN [next |-> FALSE, status |-> 403,
           message |-> "Invalid token.", user |-> NoUser]
     ELSE [next |-> TRUE, status |-> 0, message |-> "",
           user |-> token.payload]

Mut_checkRole_noSuperBypass(roles, user) ==
  IF user = NoUser
  THEN [next |-> FALSE, status |-> 401]
  ELSE LET authorized == IF roles.isArray
                         THEN user.role \in roles.list
                         ELSE user.role = roles.role
       IN IF ~authorized
          THEN [next |-> FALSE, status |-> 403]
          ELSE [next |-> TRUE, status |-> 0]

\* src/middleware/auth.js, checkRole(roles): roles is an array
\* ([isArray |-> TRUE, list |-> S]) or one role ([isArray |-> FALSE, role |-> r])
checkRole(roles, user) ==
  IF user = NoUser
  THEN [next |-> FALSE, status |-> 401]
  ELSE LET authorized == IF roles.isArray
                         THEN user.role \in roles.list
                         ELSE user.role = roles.role
       IN IF user.role = "super_admin"
          THEN [next |-> TRUE, status |-> 0]
          ELSE IF ~authorized
          THEN [next |-> FALSE, status |-> 403]
          ELSE [next |-> TRUE, status |-> 0]

(***************************************************************************)
(* Routing.  A path is the sequence of its segments below the mount point; *)
(* a route's pattern is a sequence of segments, ":id" matching any one.    *)
(* Express tries the routes of a router in registration order and runs the *)
(* first whose method and pattern match; no handler here calls next(), so  *)
(* a later route never sees a request an earlier one matched.              *)
(***************************************************************************)
RoleArray(S) == [isArray |-> TRUE, list |-> S]

Route(m, p, g, r, h) ==
  [method |-> m, pattern |-> p, guarded |-> g, roles |-> r, handler |-> h]

Open == RoleArray({})

\* src/routes/users.js lines 9, 20, 36, 78, 128
userRoutes ==
  << Route("GET",    <<>>,       TRUE, RoleArray({"super_admin", "admin"}), "users.list"),
     Route("GET",    <<":id">>,  TRUE, RoleArray({"super_admin", "admin"}), "users.get"),
     Route("POST",   <<>>,       TRUE, RoleArray({"super_admin"}),          "users.create"),
     Route("PUT",    <<":id">>,  TRUE, RoleArray({"super_admin"}),          "users.update"),
     Route("DELETE", <<":id">>,  TRUE, RoleArray({"super_admin"}),          "users.delete") >>

\* src/routes/users.js lines 162, 244, 268, 311, 363, 381, 420, 478, 542, 553
leadRoutes ==
  << Route("GET",    <<>>,                FALSE, Open, "leads.list"),
     Route("GET",    <<":id">>,           FALSE, Open, "leads.get"),
     Route("POST",   <<>>,                FALSE, Open, "leads.create"),
     Route("PUT",    <<":id">>,           FALSE, Open, "leads.update"),
     Route("DELETE", <<":id">>,           TRUE,  RoleArray({"super_admin", "admin"}), "leads.delete"),
     Route("POST",   <<":id", "notes">>,  FALSE, Open, "leads.addNote"),
     Route("POST",   <<"import">>,        TRUE,  RoleArray({"super_admin", "admin"}), "leads.import"),
     Route("GET",    <<"export">>,        TRUE,  RoleArray({"super_admin", "admin"}), "leads.export"),
     Route("GET",    <<"tags", "all">>,   FALSE, Open, "leads.tags"),
     Route("POST",   <<"tags">>,          TRUE,  RoleArray({"super_admin", "admin"}), "leads.createTag") >>

\* src/index.js lines 35-36: the routers and their mount points
Router(mount) == IF mount = "/api/users" THEN userRoutes ELSE leadRoutes

Mounts == {"/api/users", "/api/leads"}

Methods == {"GET", "POST", "PUT", "DELETE"}

\* Express path matching of one route pattern
matches(pattern, path) ==
  /\ Len(pattern) = Len(path)
  /\ \A i \in DOMAIN pattern : pattern[i] = ":id" \/ pattern[i] = path[i]

\* the first route, in registration order, that matches (0: none)
firstMatch(router, method, path) ==
  LET hits == {i \in DOMAIN router :
                 router[i].method = method /\ matches(router[i].pattern, path)}
  IN IF hits = {} THEN 0
     ELSE CHOOSE i \in hits : \A j \in hits : i <= j

\* the router's answer for req.user = user: the handler that runs
\* ("none" with the status the middleware sent, 404 when no route matches)
dispatch(mount, method, path, user) ==
  LET i == firstMatch(Router(mount), method, path)
  IN IF i = 0 THEN [status |-> 404, handler |-> "none"]
     ELSE LET r == Router(mount)[i]
              g == IF r.guarded THEN checkRole(r.roles, user)
                   ELSE [next |-> TRUE, status |-> 0]
          IN IF g.next THEN [status |-> 0, handler |-> r.handler]
             ELSE [status |-> g.status, handler |-> "none"]

\* index.js: app.use(mount, authenticateToken, router)
handle(mount, method, path, header) ==
  LET a == authenticateToken(header)
  IN IF ~a.next
     THEN [status |-> a.status, message |-> a.message, handler |-> "none",
           user |-> NoUser]
     ELSE LET d == dispatch(mount, method, path, a.user)
          IN [status |-> d.status, message |-> "", handler |-> d.handler,
              user |-> a.user]

\* whether an authenticated caller's request reaches handler h
runs(mount, method, path, user, h) ==
  dispatch(mount, method, path, user).handler = h

Paths(mount) ==
  IF mount = "/api/users"
  THEN {<<>>, <<"u1">>}
  ELSE {<<>>, <<"L1">>, <<"L1", "notes">>, <<"import">>, <<"export">>,
        <<"tags", "all">>, <<"tags">>}

\* a request as it arrives: nothing sent, no handler run, no claims attached
Arriving(mount, method, path, header) ==
  [phase |-> "arrived", mount |-> mount, method |-> method, path |-> path,
   header |-> header, status |-> 0, message |-> "", handler |-> "none",
   user |-> NoUser]

NoHttp == [Arriving("", "", <<>>, NoHeader) EXCEPT !.phase = "none"]

\* the arrived request goes through authenticateToken and the router; http
\* then records the middleware's response (status 0: none, a handler ran),
\* the handler reached and the claims attached to the request
Request ==
  /\ http.phase = "arrived"
  /\ LET r == handle(http.mount, http.method, http.path, http.header)
     IN http' = [http EXCEPT !.phase = "done", !.status = r.status,
                             !.message = r.message, !.handler = r.handler,
                             !.user = r.user]
  /\ UNCHANGED <<users, ureqs, leads, reqs, clock, last, listing>>

(***************************************************************************)
(* The Lead collection.  leads maps the id of every lead ever created to   *)
(* its document; a deleted lead leaves Tombstone (ObjectIds are not        *)
(* reused).  v is Mongoose's version key __v.  updatedAt, which the        *)
(* pre-save hook (src/models/Lead.js lines 71-74) rewrites on every save   *)
(* and nothing reads, is left out; its one effect, that every save() of a  *)
(* loaded document sends an update, is kept.                               *)
(***************************************************************************)
LeadIdSeq == <<"L1", "L2", "L3", "L4", "L5">>

LeadIds == {LeadIdSeq[i] : i \in DOMAIN LeadIdSeq}

Tombstone == [deleted |-> TRUE]

\* src/models/Lead.js line 42: the enum of status
StatusEnum == {"New", "Contacted", "Qualified", "Won", "Lost"}

Website == <<"W", "e", "b", "s", "i", "t", "e">>

Import == <<"I", "m", "p", "o", "r", "t">>

\* a path left undefined (phone has no default)
Undefined == <<"undefined">>

has(b, f) == f \in DOMAIN b

exists(id) == id \in DOMAIN leads /\ ~leads[id].deleted

\* the _id a new document gets
freshId == LeadIdSeq[Cardinality(DOMAIN leads) + 1]

\* new Lead(f) for createdBy = by at time now: the schema's setters (trim,
\* lowercase) and defaults (src/models/Lead.js lines 19-68); f carries name
\* and email, and a field it does not carry is undefined
newLead(f, by, now) ==
  [deleted    |-> FALSE,
   name       |-> trim(f.name),
   email      |-> toLowerCase(trim(f.email)),
   phone      |-> IF has(f, "phone") THEN trim(f.phone) ELSE Undefined,
   source     |-> IF has(f, "source") THEN trim(f.source) ELSE Website,
   status     |-> IF has(f, "status") THEN f.status ELSE "New",
   tags       |-> IF has(f, "tags") THEN f.tags ELSE <<>>,
   notes      |-> <<>>,
   assignedTo |-> IF has(f, "assignedTo") THEN f.assignedTo ELSE "null",
   createdBy  |-> by,
   createdAt  |-> now,
   v          |-> 0]

Mut_validate_noEnum(doc) ==
  /\ doc.name # <<>>
  /\ doc.email # <<>>

\* the validation save() runs first: required (an empty string fails it)
\* and enum (src/models/Lead.js lines 20-45)
validate(doc) ==
  /\ doc.name # <<>>
  /\ doc.email # <<>>
  /\ doc.status \in StatusEnum

(***************************************************************************)
(* Listing and export: the filter each handler builds from req.query, and  *)
(* the documents Lead.find(filter) selects.  A date parameter is a day     *)
(* number; a timestamp counts ticks, DayLen to the day, and the server's   *)
(* local time is taken to be UTC.                                          *)
(***************************************************************************)
DayLen == 2

\* new Date(day)
dateOf(day) == day * DayLen

\* toDate.setHours(23, 59, 59, 999)
endOfDay(day) == day * DayLen + (DayLen - 1)

\* tags is an array, or a string split at ','; both are sequences here
tagArray(tags) == {tags[i] : i \in DOMAIN tags}

\* the createdAt part of a filter (users.js lines 189-197 and 489-497)
dateRange(q) ==
  [gte |-> IF has(q, "dateFrom") THEN dateOf(q.dateFrom) ELSE -1,
   lte |-> IF has(q, "dateTo") THEN endOfDay(q.dateTo) ELSE -1]

Mut_listFilter_trustAssignedTo(q, user) ==
  [status     |-> IF has(q, "status") THEN {q.status} ELSE {},
   assignedTo |-> IF has(q, "assignedTo") THEN {q.assignedTo}
                  ELSE IF user.role = "agent" THEN {user.id} ELSE {},
   source     |-> IF has(q, "source") THEN {q.source} ELSE {},
   createdAt  |-> IF has(q, "dateFrom") \/ has(q, "dateTo")
                  THEN {dateRange(q)} ELSE {},
   tags       |-> IF has(q, "tags") THEN {tagArray(q.tags)} ELSE {},
   or         |-> IF has(q, "search") THEN {q.search} ELSE {}]

\* the filter of GET /leads (users.js lines 176-212): each key holds the
\* set of its conditions, empty when the filter lacks the key
listFilter(q, user) ==
  [status     |-> IF has(q, "status") THEN {q.status} ELSE {},
   assignedTo |-> IF user.role = "agent" THEN {user.id}
                  ELSE IF has(q, "assignedTo") THEN {q.assignedTo} ELSE {},
   source     |-> IF has(q, "source") THEN {q.source} ELSE {},
   createdAt  |-> IF has(q, "dateFrom") \/ has(q, "dateTo")
                  THEN {dateRange(q)} ELSE {},
   tags       |-> IF has(q, "tags") THEN {tagArray(q.tags)} ELSE {},
   or         |-> IF has(q, "search") THEN {q.search} ELSE {}]

\* the filter of GET /leads/export (users.js lines 480-503)
exportFilter(q) ==
  [status     |-> IF has(q, "status") THEN {q.status} ELSE {},
   assignedTo |-> IF has(q, "assignedTo") THEN {q.assignedTo} ELSE {},
   source     |-> {},
   createdAt  |-> IF has(q, "dateFrom") \/ has(q, "dateTo")
                  THEN {dateRange(q)} ELSE {},
   tags       |-> IF has(q, "tags") THEN {tagArray(q.tags)} ELSE {},
   or         |-> {}]

\* whether a document satisfies a filter: the keys are ANDed; $in and $or
\* are the inner ORs
satisfies(doc, f) ==
  /\ \A s \in f.status : doc.status = s
  /\ \A a \in f.assignedTo : doc.assignedTo = a
  /\ \A s \in f.source : doc.source = s
  /\ \A r \in f.createdAt :
       /\ r.gte # -1 => doc.createdAt >= r.gte
       /\ r.lte # -1 => doc.createdAt <= r.lte
  /\ \A ts \in f.tags : \E i \in DOMAIN doc.tags : doc.tags[i] \in ts
  /\ \A s \in f.or :
       \/ regexI(s, doc.name)
       \/ regexI(s, doc.email)
       \/ doc.phone # Undefined /\ regexI(s, doc.phone)

\* Lead.find(filter) / Lead.countDocuments(filter): the ids selected
find(f) == {id \in DOMAIN leads : exists(id) /\ satisfies(leads[id], f)}

\* .sort({ createdAt: -1 }): the orders the sort can give (ties are
\* returned in no specified order)
sorted(S) ==
  {o \in [1..Cardinality(S) -> S] :
     /\ \A i, j \in DOMAIN o : i # j => o[i] # o[j]
     /\ \A i, j \in DOMAIN o :
          i < j => leads[o[i]].createdAt >= leads[o[j]].createdAt}

\* .skip(skip).limit(limit); limit(0) is no limit
page(o, skip, limit) ==
  LET rest == IF skip >= Len(o) THEN <<>> ELSE SubSeq(o, skip + 1, Len(o))
  IN IF limit = 0 \/ limit >= Len(rest) THEN rest ELSE SubSeq(rest, 1, limit)

\* a GET /leads request of req.user = user with req.query = q, as it arrives
Listing(user, q) ==
  [phase |-> "arrived", user |-> user, query |-> q, leads |-> <<>>,
   counted |-> {}, total |-> 0]

NoListing == [Listing(NoUser, <<>>) EXCEPT !.phase = "none"]

\* GET /leads (users.js lines 162-241) answers the arrived request: listing
\* then records the page of leads sent and the documents countDocuments
\* counted
LeadList ==
  /\ listing.phase = "arrived"
  /\ runs("/api/leads", "GET", <<>>, listing.user, "leads.list")
  /\ LET q     == listing.query
         f     == listFilter(q, listing.user)
         pg    == IF has(q, "page") THEN q.page ELSE 1
         limit == IF has(q, "limit") THEN q.limit ELSE 10
     IN \E o \in sorted(find(f)) :
          listing' = [listing EXCEPT
                        !.phase = "done",
                        !.leads = page(o, (pg - 1) * limit, limit),
                        !.counted = find(f),
                        !.total = Cardinality(find(f))]
  /\ UNCHANGED <<http, users, ureqs, leads, reqs, clock, last>>

(***************************************************************************)
(* The handlers that write leads.  A handler that awaits the store twice   *)
(* (findById, then save) is an action for the read and one for the store   *)
(* applying the update (Save); add-note, which reads the clock after the   *)
(* read, has an action (NoteApply) in between.  Other requests run in      *)
(* between.                                                                *)
(* reqs holds, per caller, the caller's request in flight; last records    *)
(* the response sent last.                                                 *)
(*                                                                         *)
(* save() of a loaded document validates it, then sends                    *)
(* updateOne({_id}, {$set: <the modified paths>}).  When an array path was *)
(* modified (tags assigned, notes.unshift) Mongoose's versioning adds the  *)
(* loaded __v to the condition and increments __v: LeadSchema (Lead.js     *)
(* lines 19-68) does not switch the version key off.  An update that       *)
(* matches no document makes save() throw (VersionError or                 *)
(* DocumentNotFoundError), which every handler answers with 500.           *)
(***************************************************************************)
\* the callers of the lead handlers
Callers == {AD, G1}

Idle == [pc |-> "idle"]

NoLast == [op |-> "none", phase |-> "none", status |-> 0]

MaxClock == 1

MaxNotes == 2

\* JavaScript truthiness of a status string or an id
truthyStr(x) == x # ""

Fields == {"name", "email", "phone", "source", "status", "tags", "notes",
           "assignedTo"}

\* the paths save() finds modified: those whose value differs from the
\* loaded one
modified(read, doc) == {f \in Fields : doc[f] # read[f]}

Mut_delta_noVersion(read, doc) ==
  [set   |-> [f \in modified(read, doc) |-> doc[f]],
   where |-> -1]

\* the update save() sends for a document loaded as read and now doc: the
\* $set, and the __v its condition names (-1: the condition is the _id
\* alone)
delta(read, doc) ==
  [set   |-> [f \in modified(read, doc) |-> doc[f]],
   where |-> IF modified(read, doc) \cap {"tags", "notes"} # {}
             THEN read.v ELSE -1]

\* what the update meets in the store, cur being the stored document
saveOutcome(cur, upd) ==
  IF cur.deleted THEN "DocumentNotFoundError"
  ELSE IF upd.where # -1 /\ cur.v # upd.where THEN "VersionError"
  ELSE "ok"

\* the stored document after the update
written(cur, upd) ==
  [f \in DOMAIN cur |->
     IF f \in DOMAIN upd.set THEN upd.set[f]
     ELSE IF f = "v" /\ upd.where # -1 THEN cur.v + 1
     ELSE cur[f]]

Mut_agentMay_always(user, doc) == TRUE

\* users.js lines 330 and 396: the check an agent's update / add-note makes
\* on the loaded lead
agentMay(user, doc) ==
  ~(user.role = "agent" /\ doc.assignedTo # user.id)

Mut_assignFields_anyRole(doc, b, user) ==
  [doc EXCEPT
     !.name   = IF has(b, "name") /\ truthy(b.name) THEN trim(b.name) ELSE @,
     !.email  = IF has(b, "email") /\ truthy(b.email)
                THEN toLowerCase(trim(b.email)) ELSE @,
     !.phone  = IF has(b, "phone") /\ truthy(b.phone) THEN trim(b.phone) ELSE @,
     !.source = IF has(b, "source") /\ truthy(b.source)
                THEN trim(b.source) ELSE @,
     !.status = IF has(b, "status") /\ truthyStr(b.status) THEN b.status ELSE @,
     !.assignedTo = IF has(b, "assignedTo") /\ truthyStr(b.assignedTo)
                    THEN b.assignedTo ELSE @,
     !.tags   = IF has(b, "tags") THEN b.tags ELSE @]

\* users.js lines 334-347: the fields PUT /leads/:id assigns (an array is
\* truthy even when empty)
assignFields(doc, b, user) ==
  [doc EXCEPT
     !.name   = IF has(b, "name") /\ truthy(b.name) THEN trim(b.name) ELSE @,
     !.email  = IF has(b, "email") /\ truthy(b.email)
                THEN toLowerCase(trim(b.email)) ELSE @,
     !.phone  = IF has(b, "phone") /\ truthy(b.phone) THEN trim(b.phone) ELSE @,
     !.source = IF has(b, "source") /\ truthy(b.source)
                THEN trim(b.source) ELSE @,
     !.status = IF has(b, "status") /\ truthyStr(b.status) THEN b.status ELSE @,
     !.assignedTo = IF /\ has(b, "assignedTo") /\ truthyStr(b.assignedTo)
                       /\ user.role # "agent"
                    THEN b.assignedTo ELSE @,
     !.tags   = IF has(b, "tags") THEN b.tags ELSE @]

\* users.js lines 400-404: lead.notes.unshift(note)
unshift(doc, note) == [doc EXCEPT !.notes = <<note>> \o @]

Respond(op, status) == [op |-> op, phase |-> "done", status |-> status]

\* a request that has loaded its lead
Found(op, id, b, doc) ==
  [pc |-> "found", op |-> op, id |-> id, body |-> b, read |-> doc]

\* a request whose save() has sent its update; seen is the assignedTo the
\* request loaded
Saving(r, upd) ==
  [pc |-> "saving", op |-> r.op, id |-> r.id, body |-> r.body,
   seen |-> r.read.assignedTo, upd |-> upd]

\* POST /leads (users.js lines 268-308)
LeadCreate(user, b, cap) ==
  /\ runs("/api/leads", "POST", <<>>, user, "leads.create")
  /\ Cardinality(DOMAIN leads) < cap
  /\ LET f   == IF has(b, "status") THEN b ELSE b @@ ("status" :> "New")
         bad == \/ ~has(b, "name") \/ ~truthy(b.name)
                \/ ~has(b, "email") \/ ~truthy(b.email)
     IN IF bad
        THEN /\ last' = Respond("create", 400) @@ [body |-> b]
             /\ UNCHANGED leads
        ELSE LET doc == newLead(f, user.id, clock)
             IN IF ~validate(doc)
                THEN /\ last' = Respond("create", 500) @@ [body |-> b]
                     /\ UNCHANGED leads
                ELSE /\ leads' = leads @@ (freshId :> doc)
                     /\ last' = Respond("create", 201) @@ [body |-> b]
  /\ UNCHANGED <<http, users, ureqs, reqs, clock, listing>>

\* PUT /leads/:id, lines 324-349: findById and, on its result, the check,
\* the assignments, and the validation and update of save() (that code
\* reads nothing but the loaded document)
LeadUpdate(user, id, b) ==
  /\ runs("/api/leads", "PUT", <<id>>, user, "leads.update")
  /\ reqs[user].pc = "idle"
  /\ IF ~exists(id)
     THEN /\ last' = Respond("update", 404)
          /\ UNCHANGED reqs
     ELSE LET r == Found("update", id, b, leads[id])
              m == assignFields(r.read, b, user)
          IN IF ~agentMay(user, r.read)
             THEN /\ last' = Respond("update", 403)
                  /\ UNCHANGED reqs
             ELSE IF ~validate(m)
             THEN /\ last' = Respond("update", 500)
                  /\ UNCHANGED reqs
             ELSE /\ reqs' = [reqs EXCEPT ![user] = Saving(r, delta(r.read, m))]
                  /\ UNCHANGED last
  /\ UNCHANGED <<http, users, ureqs, leads, clock, listing>>

\* POST /leads/:id/notes, lines 383-393: the content check and findById
NoteFind(user, id, content) ==
  /\ runs("/api/leads", "POST", <<id, "notes">>, user, "leads.addNote")
  /\ reqs[user].pc = "idle"
  /\ exists(id) => Len(leads[id].notes) < MaxNotes
  /\ IF ~truthy(content)
     THEN /\ last' = Respond("note", 400)
          /\ UNCHANGED reqs
     ELSE IF ~exists(id)
     THEN /\ last' = Respond("note", 404)
          /\ UNCHANGED reqs
     ELSE /\ reqs' = [reqs EXCEPT ![user] =
                        Found("note", id, content, leads[id])]
          /\ UNCHANGED last
  /\ UNCHANGED <<http, users, ureqs, leads, clock, listing>>

\* POST /leads/:id/notes, lines 395-406: the check, notes.unshift, and the
\* update of save()
NoteApply(user) ==
  /\ reqs[user].pc = "found" /\ reqs[user].op = "note"
  /\ LET r == reqs[user]
         note == [content |-> r.body, createdBy |-> user.id,
                  createdAt |-> clock]
     IN IF ~agentMay(user, r.read)
        THEN /\ last' = Respond("note", 403)
             /\ reqs' = [reqs EXCEPT ![user] = Idle]
        ELSE /\ reqs' = [reqs EXCEPT ![user] =
                           Saving(r, delta(r.read, unshift(r.read, note)))]
             /\ UNCHANGED last
  /\ UNCHANGED <<http, users, ureqs, leads, clock, listing>>

\* lines 349 and 406: the store applies the update of lead.save()
Save(user) ==
  /\ reqs[user].pc = "saving"
  /\ LET r   == reqs[user]
         cur == leads[r.id]
     IN IF saveOutcome(cur, r.upd) # "ok"
        THEN /\ last' = Respond(r.op, 500)
             /\ UNCHANGED leads
        ELSE /\ leads' = [leads EXCEPT ![r.id] = written(cur, r.upd)]
             /\ last' = IF r.op = "update"
                        THEN Respond(r.op, 200)
                               @@ [user |-> user, body |-> r.body]
                        ELSE Respond(r.op, 200)
  /\ reqs' = [reqs EXCEPT ![user] = Idle]
  /\ UNCHANGED <<http, users, ureqs, clock, listing>>

\* DELETE /leads/:id (users.js lines 363-378)
LeadDelete(user, id) ==
  /\ LET d == dispatch("/api/leads", "DELETE", <<id>>, user)
     IN IF d.handler # "leads.delete"
        THEN /\ last' = Respond("delete", d.status)
             /\ UNCHANGED leads
        ELSE IF ~exists(id)
        THEN /\ last' = Respond("delete", 404)
             /\ UNCHANGED leads
        ELSE /\ leads' = [leads EXCEPT ![id] = Tombstone]
             /\ last' = Respond("delete", 200)
  /\ UNCHANGED <<http, users, ureqs, reqs, clock, listing>>

\* new Date() / Date.now() moves on (the time before the first lead exists
\* is not counted)
Tick ==
  /\ clock < MaxClock
  /\ leads # <<>>
  /\ clock' = clock + 1
  /\ UNCHANGED <<http, users, ureqs, leads, reqs, last, listing>>

(***************************************************************************)
(* POST /leads/import (users.js lines 420-475).  rows is the result of     *)
(* sheet_to_json: one function per data row, carrying the columns the row  *)
(* fills.  The rows are saved one after the other; the inserts of one      *)
(* import are taken together, since each creates a document of its own.    *)
(***************************************************************************)
MissingFields == "Missing required fields (name, email)"

\* the _id of the next document of store
freshIn(store) == LeadIdSeq[Cardinality(DOMAIN store) + 1]

\* the document the loop builds for a row (lines 450-457)
importedLead(item, by, now) ==
  newLead([name   |-> item.name,
           email  |-> item.email,
           phone  |-> IF has(item, "phone") /\ truthy(item.phone)
                      THEN item.phone ELSE <<>>,
           source |-> IF has(item, "source") /\ truthy(item.source)
                      THEN item.source ELSE Import,
           status |-> IF has(item, "status") /\ truthyStr(item.status)
                      THEN item.status ELSE "New"],
          by, now)

Mut_importRow_abortOnError(acc, item, i, by, now) ==
  IF acc.errors # <<>> THEN acc
  ELSE IF \/ ~has(item, "name") \/ ~truthy(item.name)
          \/ ~has(item, "email") \/ ~truthy(item.email)
  THEN [acc EXCEPT !.errors =
          Append(@, [row |-> i + 2, message |-> MissingFields])]
  ELSE LET doc == importedLead(item, by, now)
       IN IF validate(doc)
          THEN [acc EXCEPT !.store = @ @@ (freshIn(@) :> doc),
                           !.imported = Append(@, freshIn(acc.store))]
          ELSE [acc EXCEPT !.errors =
                  Append(@, [row |-> i + 2, message |-> "ValidationError"])]

\* one pass of the loop (lines 440-464) for data[i] = item, i counting
\* from 0: acc holds the store, importedLeads and errors
importRow(acc, item, i, by, now) ==
  IF \/ ~has(item, "name") \/ ~truthy(item.name)
     \/ ~has(item, "email") \/ ~truthy(item.email)
  THEN [acc EXCEPT !.errors =
          Append(@, [row |-> i + 2, message |-> MissingFields])]
  ELSE LET doc == importedLead(item, by, now)
       IN IF validate(doc)
          THEN [acc EXCEPT !.store = @ @@ (freshIn(@) :> doc),
                           !.imported = Append(@, freshIn(acc.store))]
          ELSE [acc EXCEPT !.errors =
                  Append(@, [row |-> i + 2, message |-> "ValidationError"])]

RECURSIVE importRows(_, _, _, _, _)
\* the loop from data[i] on
importRows(acc, rows, i, by, now) ==
  IF i >= Len(rows) THEN acc
  ELSE importRows(importRow(acc, rows[i + 1], i, by, now), rows, i + 1, by, now)

\* the handler; cap bounds the documents the store may hold
LeadImport(user, rows, cap) ==
  /\ Cardinality(DOMAIN leads) + Len(rows) <= cap
  /\ LET d == dispatch("/api/leads", "POST", <<"import">>, user)
         req == [user |-> user, rows |-> rows, imported |-> 0,
                 errors |-> <<>>]
     IN IF d.handler # "leads.import"
        THEN /\ last' = Respond("import", d.status) @@ req
             /\ UNCHANGED leads
        ELSE IF Len(rows) = 0
        THEN /\ last' = Respond("import", 400) @@ req
             /\ UNCHANGED leads
        ELSE LET acc == importRows([store |-> leads, imported |-> <<>>,
                                    errors |-> <<>>],
                                   rows, 0, user.id, clock)
             IN /\ leads' = acc.store
                /\ last' = Respond("import", 200)
                             @@ [user |-> user, rows |-> rows,
                                 imported |-> Len(acc.imported),
                                 errors |-> acc.errors]
  /\ UNCHANGED <<http, users, ureqs, reqs, clock, listing>>

(***************************************************************************)
(* DELETE /users/:id (users.js lines 128-148).  users is the set of the    *)
(* ids of the stored accounts; ureqs holds, per caller, the delete between *)
(* its findById and its findByIdAndDelete.                                 *)
(***************************************************************************)
\* line 137: user._id.toString() === req.user.id
isSelf(id, user) == id = user.id

\* lines 128-139: checkRole, findById and the checks on its result
UserDeleteFind(user, id) ==
  /\ ureqs[user].pc = "idle"
  /\ LET d == dispatch("/api/users", "DELETE", <<id>>, user)
         req == [user |-> user, id |-> id]
     IN IF d.handler # "users.delete"
        THEN /\ last' = Respond("userDelete", d.status) @@ req
             /\ UNCHANGED ureqs
        ELSE IF id \notin DOMAIN users
        THEN /\ last' = Respond("userDelete", 404) @@ req
             /\ UNCHANGED ureqs
        ELSE IF isSelf(id, user)
        THEN /\ last' = Respond("userDelete", 400) @@ req
             /\ UNCHANGED ureqs
        ELSE /\ ureqs' = [ureqs EXCEPT ![user] = [pc |-> "deleting", id |-> id]]
             /\ UNCHANGED last
  /\ UNCHANGED <<http, users, leads, reqs, clock, listing>>

\* line 141: findByIdAndDelete, then the 200
UserDeleteApply(user) ==
  /\ ureqs[user].pc = "deleting"
  /\ users' = [i \in DOMAIN users \ {ureqs[user].id} |-> users[i]]
  /\ last' = Respond("userDelete", 200)
               @@ [user |-> user, id |-> ureqs[user].id]
  /\ ureqs' = [ureqs EXCEPT ![user] = Idle]
  /\ UNCHANGED <<http, leads, reqs, clock, listing>>

(***************************************************************************)
(* POST /users and PUT /users/:id (users.js lines 36-125).  users maps the *)
(* _id of each stored account to the document, of which the email is kept. *)
(* The bodies carry name and password; the email is the field that varies. *)
(***************************************************************************)
\* the _ids of the accounts the requests create
NewUserIds == <<"u6", "u7">>

created(store) == {NewUserIds[k] : k \in DOMAIN NewUserIds} \cap DOMAIN store

freshUser(store) == NewUserIds[Cardinality(created(store)) + 1]

\* User.findOne({ email }) finds a document: setters tells whether the
\* query's email goes through the schema's setters (trim, lowercase) before
\* it is compared, which the library decides
findOne(store, email, setters) ==
  \E i \in DOMAIN store :
    store[i].email = IF setters THEN toLowerCase(trim(email)) ELSE email

\* new User({ email, ... }): the schema's setters (Lead.js lines 85-91)
newUser(b) == [email |-> toLowerCase(trim(b.email))]

\* the validation save() runs first: email is required
validateUser(doc) == doc.email # <<>>

Mut_duplicateKey_noIndex(store, id, email) == FALSE

\* unique: true (Lead.js line 88): the index refuses a write that gives the
\* document id an email another document holds
duplicateKey(store, id, email) ==
  \E i \in DOMAIN store \ {id} : store[i].email = email

UserRespond(op, status, user, email) ==
  Respond(op, status) @@ [user |-> user, email |-> email]

\* lines 36-44: checkRole and the findOne for the body's email
UserCreateFind(user, b, setters) ==
  /\ ureqs[user].pc = "idle"
  /\ Cardinality(created(users))
       + Cardinality({u \in Payloads : ureqs[u].pc = "creating"})
       < Len(NewUserIds)
  /\ LET d == dispatch("/api/users", "POST", <<>>, user)
     IN IF d.handler # "users.create"
        THEN /\ last' = UserRespond("userCreate", d.status, user, b.email)
             /\ UNCHANGED ureqs
        ELSE IF findOne(users, b.email, setters)
        THEN /\ last' = UserRespond("userCreate", 400, user, b.email)
             /\ UNCHANGED ureqs
        ELSE /\ ureqs' = [ureqs EXCEPT ![user] =
                            [pc |-> "creating", body |-> b, doc |-> newUser(b)]]
             /\ UNCHANGED last
  /\ UNCHANGED <<http, users, leads, reqs, clock, listing>>

\* lines 51-59: new User(...) and save(): validation, then the insert
UserCreateSave(user) ==
  /\ ureqs[user].pc = "creating"
  /\ LET r == ureqs[user]
         id == freshUser(users)
     IN IF ~validateUser(r.doc) \/ duplicateKey(users, id, r.doc.email)
        THEN /\ last' = UserRespond("userCreate", 500, user, r.body.email)
             /\ UNCHANGED users
        ELSE /\ users' = users @@ (id :> r.doc)
             /\ last' = UserRespond("userCreate", 201, user, r.body.email)
  /\ ureqs' = [ureqs EXCEPT ![user] = Idle]
  /\ UNCHANGED <<http, leads, reqs, clock, listing>>

\* lines 97-108, up to the update save() sends: the assignment of the
\* email, the validation, and the $set of the modified path
UserAssigned(r) ==
  LET m == IF truthy(r.body.email)
           THEN [r.read EXCEPT !.email = toLowerCase(trim(r.body.email))]
           ELSE r.read
  IN [pc |-> "updating", id |-> r.id, body |-> r.body,
      valid |-> validateUser(m),
      set |-> [f \in {g \in {"email"} : m[g] # r.read[g]} |-> m[f]]]

\* lines 78-89: checkRole, findById and the comparison with the stored email
UserUpdateFind(user, id, b) ==
  /\ ureqs[user].pc = "idle"
  /\ LET d == dispatch("/api/users", "PUT", <<id>>, user)
     IN IF d.handler # "users.update"
        THEN /\ last' = UserRespond("userUpdate", d.status, user, b.email)
             /\ UNCHANGED ureqs
        ELSE IF id \notin DOMAIN users
        THEN /\ last' = UserRespond("userUpdate", 404, user, b.email)
             /\ UNCHANGED ureqs
        ELSE LET r == [pc |-> "checking", id |-> id, body |-> b,
                       read |-> users[id]]
             IN /\ ureqs' = [ureqs EXCEPT ![user] =
                               IF truthy(b.email) /\ b.email # users[id].email
                               THEN r ELSE UserAssigned(r)]
                /\ UNCHANGED last
  /\ UNCHANGED <<http, users, leads, reqs, clock, listing>>

\* lines 90-94: the findOne for an email that differs from the stored one
UserUpdateCheck(user, setters) ==
  /\ ureqs[user].pc = "checking"
  /\ LET r == ureqs[user]
     IN IF findOne(users, r.body.email, setters)
        THEN /\ last' = UserRespond("userUpdate", 400, user, r.body.email)
             /\ ureqs' = [ureqs EXCEPT ![user] = Idle]
        ELSE /\ ureqs' = [ureqs EXCEPT ![user] = UserAssigned(r)]
             /\ UNCHANGED last
  /\ UNCHANGED <<http, users, leads, reqs, clock, listing>>

\* line 108: save(): validation, then the update of the stored document
UserUpdateSave(user) ==
  /\ ureqs[user].pc = "updating"
  /\ LET r == ureqs[user]
     IN IF \/ ~r.valid
           \/ r.id \notin DOMAIN users
           \/ has(r.set, "email") /\ duplicateKey(users, r.id, r.set.email)
        THEN /\ last' = UserRespond("userUpdate", 500, user, r.body.email)
             /\ UNCHANGED users
        ELSE /\ users' = [users EXCEPT ![r.id] =
                            [f \in DOMAIN @ |->
                               IF has(r.set, f) THEN r.set[f] ELSE @[f]]]
             /\ last' = UserRespond("userUpdate", 200, user, r.body.email)
  /\ ureqs' = [ureqs EXCEPT ![user] = Idle]
  /\ UNCHANGED <<http, leads, reqs, clock, listing>>

(***************************************************************************)
(* Initial values, shared by the specifications below.                     *)
(***************************************************************************)
UserIds == {p.id : p \in Payloads}

\* the accounts stored at the start, their emails as the schema stores
\* them: trimmed, in lower case, no two equal
StoredUsers ==
  [id \in UserIds |->
     [email |-> CASE id = "u1" -> <<"a">>
                  [] id = "u2" -> <<"b">>
                  [] id = "u3" -> <<"c">>
                  [] id = "u4" -> <<"d">>
                  [] OTHER     -> <<"e">>]]

InitRest ==
  /\ users = StoredUsers
  /\ ureqs = [p \in Payloads |-> Idle]
  /\ reqs = [c \in Callers |-> Idle]
  /\ clock = 0

(***************************************************************************)
(* SpecHttp: every request through the middleware and the routers, and     *)
(* checkRole on every array of roles.                                      *)
(***************************************************************************)
\* checkRole(roles)(req, res, next), for the roles and req.user of last
CheckRoleCall ==
  /\ last.op = "checkRole" /\ last.phase = "arrived"
  /\ LET g == checkRole(RoleArray(last.roles), last.user)
     IN last' = [last EXCEPT !.phase = "done", !.next = g.next,
                             !.status = g.status]
  /\ UNCHANGED <<http, users, ureqs, leads, reqs, clock, listing>>

\* either one HTTP request arrives, or checkRole is called on its own
InitHttp ==
  /\ InitRest
  /\ leads = <<>>
  /\ listing = NoListing
  /\ \/ /\ last = NoLast
        /\ \E mount \in Mounts, method \in Methods, header \in Headers :
             \E path \in Paths(mount) :
               http = Arriving(mount, method, path, header)
     \/ /\ http = NoHttp
        /\ \E roles \in SUBSET Roles, user \in Payloads \cup {NoUser} :
             last = [op |-> "checkRole", phase |-> "arrived",
                     roles |-> roles, user |-> user, next |-> FALSE,
                     status |-> 0]

NextHttp == Request \/ CheckRoleCall

SpecHttp == InitHttp /\ [][NextHttp]_vars

(***************************************************************************)
(* SpecQuery: GET /leads by every caller with every query, over stores of  *)
(* two leads.                                                              *)
(***************************************************************************)
Al == <<"A", "l">>

Bo == <<"B", "o">>

AlMail == <<"a", "@", "x">>

BoMail == <<"b", "@", "x">>

Samples1 ==
  {[newLead([name |-> Al, email |-> AlMail], "u3", c)
      EXCEPT !.status = st, !.source = so, !.assignedTo = a, !.tags = tg] :
     st \in {"New", "Won"}, so \in {Website, Import},
     a \in {"null", "u4", "u5"}, tg \in {<<>>, <<"t1">>},
     c \in {0, 2 * DayLen - 1}}

Samples2 ==
  {Tombstone}
    \cup {[newLead([name |-> Bo, email |-> BoMail], "u3", DayLen - 1)
             EXCEPT !.assignedTo = "u5", !.tags = <<"t1", "t2">>]}

opt(k, S) == {<<>>} \cup {k :> v : v \in S}

\* req.query: every parameter is optional; an empty parameter, which the
\* handlers treat as absent, is not sent
Queries ==
  {st @@ a @@ so @@ df @@ dt @@ tg @@ se @@ pg @@ lm :
     st \in opt("status", {"Won"}),
     a  \in opt("assignedTo", {"u4", "u5"}),
     so \in opt("source", {Import}),
     df \in opt("dateFrom", {1}),
     dt \in opt("dateTo", {0}),
     tg \in opt("tags", {<<"t1">>}),
     se \in opt("search", {<<"a">>}),
     pg \in opt("page", {2}),
     lm \in opt("limit", {1})}

InitQuery ==
  /\ InitRest
  /\ http = NoHttp
  /\ last = NoLast
  /\ \E d1 \in Samples1, d2 \in Samples2 :
       leads = ("L1" :> d1) @@ ("L2" :> d2)
  /\ \E user \in {AD, G1, G2}, q \in Queries : listing = Listing(user, q)

NextQuery == LeadList

SpecQuery == InitQuery /\ [][NextQuery]_vars

range(s) == {s[i] : i \in DOMAIN s}

(***************************************************************************)
(* C1.  Every lead a GET /leads listing returns to an agent, and every     *)
(* lead its total counts, is assigned to that agent, whatever filters the  *)
(* query carries (an assignedTo naming another user included).             *)
(***************************************************************************)
C1_AgentListingScoped ==
  listing.user.role = "agent" =>
    \A id \in range(listing.leads) \cup listing.counted :
      leads[id].assignedTo = listing.user.id

\* an agent asked for another agent's leads, the store holds one, and the
\* listing still returned a lead
C1_Witness ==
  /\ listing.phase = "done"
  /\ listing.user = G1
  /\ has(listing.query, "assignedTo") /\ listing.query.assignedTo = "u5"
  /\ listing.leads # <<>>
  /\ \E id \in DOMAIN leads : exists(id) /\ leads[id].assignedTo = "u5"

(***************************************************************************)
(* C3.  checkRole(roles) lets super_admin through whatever roles lists,    *)
(* and any other role only if roles lists it; a role not listed gets 403   *)
(* and the guarded handler does not run: admin and agent never reach user  *)
(* create, update or delete, and an agent never reaches lead delete,       *)
(* import, export, tag creation or the user list and read.                 *)
(***************************************************************************)
C3_CheckRole ==
  /\ last.op = "checkRole" /\ last.phase = "done" /\ last.user # NoUser =>
       /\ last.user.role = "super_admin" => last.next
       /\ last.user.role # "super_admin" =>
            /\ last.next <=> last.user.role \in last.roles
            /\ ~last.next => last.status = 403
  /\ http.handler \in {"users.create", "users.update", "users.delete"} =>
       http.user.role = "super_admin"
  /\ http.handler \in {"leads.delete", "leads.import", "leads.export",
                       "leads.createTag", "users.list", "users.get"} =>
       http.user.role # "agent"
  /\ /\ http.user.role \in {"admin", "agent"}
     /\ http.mount = "/api/users"
     /\ http.method \in {"POST", "PUT", "DELETE"}
     /\ firstMatch(userRoutes, http.method, http.path) # 0
     /\ http.phase = "done"
     => http.status = 403 /\ http.handler = "none"

\* an agent's DELETE of a lead was answered 403, and checkRole let a
\* super_admin through an array that does not list it
C3_Witness ==
  \/ /\ http.phase = "done"
     /\ http.user = G1 /\ http.method = "DELETE" /\ http.path = <<"L1">>
     /\ http.status = 403 /\ http.handler = "none"
  \/ /\ last.op = "checkRole" /\ last.phase = "done" /\ last.user = SA1
     /\ last.roles = {"admin"} /\ last.next

(***************************************************************************)
(* C4.  An expired token is rejected with 401, an outcome that differs     *)
(* from the one for a malformed or wrongly signed token; no rejected       *)
(* request reaches a handler or gets claims attached.                      *)
(***************************************************************************)
C4_ExpiredIs401 ==
  http.phase = "done" =>
    /\ http.header # NoHeader /\ Len(http.header) >= 2
         /\ http.header[2].kind = "expired"
       => http.status = 401 /\ http.message # "Invalid token."
    /\ http.status \in {401, 403} /\ http.user = NoUser =>
         http.handler = "none"

(***************************************************************************)
(* C5.  GET /leads/export by an admin or super_admin runs the export       *)
(* handler, not another route of the leads router.                         *)
(***************************************************************************)
C5_ExportDispatched ==
  /\ http.phase = "done"
  /\ http.mount = "/api/leads" /\ http.method = "GET"
  /\ http.path = <<"export">>
  /\ http.user.role \in {"admin", "super_admin"}
  => http.handler = "leads.export"

(***************************************************************************)
(* C10.  For an admin and any filters status, tags, dateFrom, dateTo,      *)
(* assignedTo and source, export selects the leads the listing query       *)
(* selects (without its pagination and free-text search).                  *)
(***************************************************************************)
C10_ExportEqualsListing ==
  /\ listing.phase = "done"
  /\ listing.user.role = "admin"
  /\ ~has(listing.query, "search")
  => find(exportFilter(listing.query)) = listing.counted

(***************************************************************************)
(* Spec: the lead handlers, one request in flight per caller.              *)
(***************************************************************************)
\* the leads of Spec: the requests name this lead, and the store holds no
\* other
SpecIds == {LeadIdSeq[1]}

SpecCap == Cardinality(SpecIds)

CreateBodies ==
  {[name |-> Al, email |-> AlMail, assignedTo |-> "u4"],
   [name |-> Al, email |-> AlMail],
   [name |-> Al],
   [email |-> AlMail],
   [name |-> <<" ">>, email |-> AlMail],
   [name |-> Al, email |-> AlMail, status |-> "Bogus"],
   [name |-> Al, email |-> AlMail, status |-> ""]}

UpdateBodies ==
  {[name |-> <<" ">>],
   [status |-> "Bogus"],
   [tags |-> <<"t">>],
   [status |-> "Contacted", assignedTo |-> "u5"]}

Contents == {<<>>, <<"h", "i">>}

\* rows of an import: complete, with every column, without email, with an
\* empty name, with a blank name, with a status outside the enum
RowKinds ==
  {[name |-> Bo, email |-> BoMail],
   [name |-> Bo, email |-> BoMail, phone |-> <<"1">>, source |-> <<"F">>,
    status |-> "Won"],
   [name |-> Bo],
   [name |-> <<>>, email |-> BoMail],
   [name |-> <<" ">>, email |-> BoMail],
   [name |-> Bo, email |-> BoMail, status |-> "Bogus"]}

\* the rows of the imports of Spec: one complete, one with a status outside
\* the enum
SpecRows == {r \in RowKinds : has(r, "status")}

Init ==
  /\ InitRest
  /\ http = NoHttp
  /\ listing = NoListing
  /\ last = NoLast
  /\ leads = <<>>

Next ==
  \/ \E b \in CreateBodies : LeadCreate(AD, b, SpecCap)
  \/ \E user \in Callers, id \in SpecIds, b \in UpdateBodies :
       LeadUpdate(user, id, b)
  \/ \E user \in Callers, id \in SpecIds, c \in Contents :
       NoteFind(user, id, c)
  \/ \E user \in Callers : NoteApply(user)
  \/ \E user \in Callers : Save(user)
  \/ \E user \in Callers, id \in SpecIds : LeadDelete(user, id)
  \/ \E user \in Callers, row \in SpecRows : LeadImport(user, <<row>>, SpecCap)
  \/ Tick

Spec == Init /\ [][Next]_vars

(***************************************************************************)
(* SpecImport: one import of up to MaxRows rows into an empty store.       *)
(***************************************************************************)
MaxRows == 4

RECURSIVE RowSeqs(_)
RowSeqs(n) ==
  IF n = 0 THEN {<<>>}
  ELSE RowSeqs(n - 1)
         \cup {Append(r, k) : r \in {x \in RowSeqs(n - 1) : Len(x) = n - 1},
                              k \in RowKinds}

InitImport ==
  /\ InitRest
  /\ http = NoHttp
  /\ listing = NoListing
  /\ leads = <<>>
  /\ \E user \in Callers, rows \in RowSeqs(MaxRows) :
       last = [op |-> "import", phase |-> "arrived", status |-> 0,
               user |-> user, rows |-> rows, imported |-> 0, errors |-> <<>>]

NextImport ==
  /\ last.phase = "arrived"
  /\ LeadImport(last.user, last.rows, MaxRows)

SpecImport == InitImport /\ [][NextImport]_vars

(***************************************************************************)
(* SpecUsers: the user deletes, one in flight per caller.                  *)
(***************************************************************************)
InitUsers ==
  /\ InitRest
  /\ http = NoHttp
  /\ listing = NoListing
  /\ last = NoLast
  /\ leads = <<>>

NextUsers ==
  \/ \E user \in Payloads, id \in UserIds : UserDeleteFind(user, id)
  \/ \E user \in Payloads : UserDeleteApply(user)

SpecUsers == InitUsers /\ [][NextUsers]_vars

(***************************************************************************)
(* C2 as stated.  A save of an agent's update or add-note changes the lead *)
(* only if the stored lead is assigned to that agent when the save is      *)
(* applied, whatever ran between the request's read and its save.          *)
(***************************************************************************)
C2_AssignedWhenWritten ==
  [][\A u \in Callers :
       /\ u.role = "agent"
       /\ reqs[u].pc = "saving"
       /\ reqs'[u].pc = "idle"
       /\ leads' # leads
       => leads[reqs[u].id].assignedTo = u.id]_vars

(***************************************************************************)
(* C2 amended.  An agent's update or add-note request sends a write only   *)
(* if the lead it loaded was assigned to that agent; an add-note whose     *)
(* loaded lead is not the agent's answers 403, and no step that answers    *)
(* 403 changes a lead.                                                     *)
(***************************************************************************)
C2_AssignedWhenRead ==
  /\ [](\A u \in Callers :
          u.role = "agent" /\ reqs[u].pc = "saving" => reqs[u].seen = u.id)
  /\ [][\A u \in Callers :
          /\ u.role = "agent"
          /\ reqs[u].pc = "found"
          /\ reqs[u].read.assignedTo # u.id
          /\ reqs'[u] # reqs[u]
          => /\ reqs'[u] = Idle
             /\ last' = Respond(reqs[u].op, 403)
             /\ leads' = leads]_vars
  /\ [][last'.status = 403 => leads' = leads]_vars

\* an agent's write is on its way while the stored lead is another agent's
C2_Witness ==
  /\ reqs[G1].pc = "saving"
  /\ reqs[G1].seen = "u4"
  /\ exists(reqs[G1].id)
  /\ leads[reqs[G1].id].assignedTo = "u5"

C7_SelfDeleteIs403 ==
  /\ last.op = "userDelete"
  /\ last.user.role = "super_admin"
  /\ last.id = last.user.id
  /\ last.id \in DOMAIN users
  => last.status = 403

(***************************************************************************)
(* C8.  An import of N rows into an empty store: a row is reported as an   *)
(* error, once and under its row number, exactly if it lacks name or email *)
(* or fails validation, whatever the rows before it; a row lacking name or *)
(* email carries the message of the missing fields; every other row        *)
(* creates one lead, source defaulting to Import and status to New;        *)
(* imported counts the leads created and imported + errors = N.            *)
(***************************************************************************)
C8_ImportPartialSuccess ==
  last.op = "import" /\ last.phase = "done" /\ last.status = 200 =>
    LET rows == last.rows
        N == Len(rows)
        errs == last.errors
        lacks(r) == \/ ~has(r, "name") \/ r.name = <<>>
                    \/ ~has(r, "email") \/ r.email = <<>>
        invalid(r) == \/ trim(r.name) = <<>> \/ trim(r.email) = <<>>
                      \/ has(r, "status") /\ r.status # ""
                           /\ r.status \notin StatusEnum
        bad(r) == lacks(r) \/ invalid(r)
        of(k) == {j \in 1..Len(errs) : errs[j].row = k + 1}
        good == SelectSeq([k \in 1..N |-> k], LAMBDA k : ~bad(rows[k]))
    IN /\ last.imported + Len(errs) = N
       /\ last.imported = Cardinality(DOMAIN leads)
       /\ \A j \in 1..Len(errs) : errs[j].row - 1 \in 1..N
       /\ \A k \in 1..N :
            /\ Cardinality(of(k)) = IF bad(rows[k]) THEN 1 ELSE 0
            /\ lacks(rows[k]) =>
                 \A j \in of(k) : errs[j].message = MissingFields
       /\ Len(good) = last.imported
       /\ \A j \in 1..Len(good) :
            LET r == rows[good[j]]
                d == leads[LeadIdSeq[j]]
            IN /\ d.name = trim(r.name)
               /\ d.source = IF has(r, "source") /\ r.source # <<>>
                             THEN trim(r.source) ELSE Import
               /\ d.status = IF has(r, "status") /\ r.status # ""
                             THEN r.status ELSE "New"

\* three complete rows and, third of the four, a row without email
C8_Witness ==
  /\ last.op = "import" /\ last.phase = "done" /\ last.status = 200
  /\ Len(last.rows) = 4
  /\ ~has(last.rows[3], "email")
  /\ last.imported = 3
  /\ last.errors = <<[row |-> 4, message |-> MissingFields]>>
  /\ Cardinality(DOMAIN leads) = 3

(***************************************************************************)
(* C9.  The notes of a lead are in non-increasing order of createdAt; a    *)
(* step leaves the notes of a lead as they are or puts one note before     *)
(* them, whose author is the caller whose save the step applies - also     *)
(* when two add-note requests load the lead before either saves.           *)
(***************************************************************************)
C9_NotesPrepended ==
  /\ [](\A id \in DOMAIN leads :
          exists(id) =>
            \A i, j \in 1..Len(leads[id].notes) :
              i < j => leads[id].notes[i].createdAt
                         >= leads[id].notes[j].createdAt)
  /\ [][\A id \in DOMAIN leads :
          exists(id) /\ leads'[id] # Tombstone =>
            \/ leads'[id].notes = leads[id].notes
            \/ \E u \in Callers :
                 /\ reqs[u].pc = "saving" /\ reqs[u].op = "note"
                 /\ reqs[u].id = id
                 /\ reqs'[u] = Idle
                 /\ Len(leads'[id].notes) = Len(leads[id].notes) + 1
                 /\ Tail(leads'[id].notes) = leads[id].notes
                 /\ Head(leads'[id].notes).createdBy = u.id]_vars

\* two add-note requests loaded the lead before either saved; one note is
\* stored and the other request's save has failed
C9_Witness ==
  /\ last = Respond("note", 500)
  /\ \E id \in DOMAIN leads :
       /\ exists(id)
       /\ Len(leads[id].notes) = 1
       /\ leads[id].v = 1
  /\ \A u \in Callers : reqs[u] = Idle

MailCallers == {SA1, SA2, AD}

CreateMails == {<<"x">>, <<"X", " ">>, <<"A">>, <<" ">>}

UpdateMails == {<<"x">>, <<"A">>, <<"b">>}

UpdateIds == {"u1", "u6"}

InitMail ==
  /\ InitRest
  /\ http = NoHttp
  /\ listing = NoListing
  /\ last = NoLast
  /\ leads = <<>>

NextMail ==
  \/ \E user \in MailCallers, e \in CreateMails, setters \in BOOLEAN :
       UserCreateFind(user, [email |-> e], setters)
  \/ \E user \in MailCallers : UserCreateSave(user)
  \/ \E user \in MailCallers, id \in UpdateIds, e \in UpdateMails :
       UserUpdateFind(user, id, [email |-> e])
  \/ \E user \in MailCallers, setters \in BOOLEAN :
       UserUpdateCheck(user, setters)
  \/ \E user \in MailCallers : UserUpdateSave(user)

SpecMail == InitMail /\ [][NextMail]_vars

(***************************************************************************)
(* C12.  No two stored accounts have the same email, letter case apart;    *)
(* the save of a create, or of an update that changes the email, whose     *)
(* email another account holds is answered with an error; and no step that *)
(* answers an error changes the accounts.                                  *)
(***************************************************************************)
C12_EmailUnique ==
  /\ [](\A i, j \in DOMAIN users :
          i # j => toLowerCase(users[i].email) # toLowerCase(users[j].email))
  /\ [][\A u \in MailCallers :
          /\ ureqs[u].pc = "creating" /\ ureqs'[u] = Idle
          /\ \E i \in DOMAIN users :
               toLowerCase(users[i].email)
                 = toLowerCase(trim(ureqs[u].body.email))
          => users' = users /\ last'.status = 500]_vars
  /\ [][\A u \in MailCallers :
          /\ ureqs[u].pc = "updating" /\ ureqs'[u] = Idle
          /\ has(ureqs[u].set, "email")
          /\ \E i \in DOMAIN users \ {ureqs[u].id} :
               toLowerCase(users[i].email)
                 = toLowerCase(trim(ureqs[u].body.email))
          => users' = users /\ last'.status = 500]_vars
  /\ [][last'.status \notin {200, 201} => users' = users]_vars

\* two creates for the same email passed the check before either saved:
\* one account is stored, the other request has failed
C12_Witness ==
  /\ last.op = "userCreate" /\ last.status = 500
  /\ last.email = <<"x">>
  /\ \E i \in DOMAIN users : users[i].email = <<"x">> /\ i = "u6"
  /\ \A u \in Payloads : ureqs[u] = Idle

====
